---- MODULE Spec2Model ----
(***************************************************************************)
(* The spaced-repetition core of bondify: the user_wordlist table, the     *)
(* /srs handlers (record_review, get_due_words, get_srs_stats,             *)
(* get_review_forecast) and the /wordlist handlers that create, change and *)
(* remove the cards.                                                       *)
(*                                                                         *)
(* Time is in seconds since 2025-01-01T00:00:00Z.  An optional column is   *)
(* <<>> (NULL / None) or <<v>>.  The stability update of the fsrs package  *)
(* is not computed after the first review of a card: the new stability is  *)
(* chosen among representative values.  The interval of a card that enters *)
(* or stays in Review follows from its stability and the interval fuzz.    *)
(***************************************************************************)
EXTENDS Integers, Sequences, FiniteSets, TLC

VARIABLES
    rows,       \* user_wordlist: id -> row
    clock,      \* datetime.now(timezone.utc)
    ticks,      \* number of clock advances so far
    sess,       \* per request slot: the AsyncSession of a record_review call
    applied,    \* history: id -> number of record_review calls that committed
    resp        \* the response returned by the step just taken, if any

vars == <<rows, clock, ticks, sess, applied, resp>>

---------------------------------------------------------------------------
\* Bounds of the model.  Spec runs the handlers one request at a time over
\* two users; SpecConc runs overlapping record_review requests on one card.
MaxReviews == 1
QueryReviews == 2
QueryTicks == 1
DueReviews == 2
DueTicks == 2
ListReviews == 1
ListIds == 3
AddIds == 4
ShowReviews == 1
ShowTicks == 1
ConcReviews == 2
ConcTicks == 1
OwnerReviews == 1
OwnerTicks == 1
OwnerIds == 3
RaceReviews == 1
RaceIds == 2
StampReviews == 3
StampTicks == 1

\* Program constants.
maximum_interval == 365
MINUTE == 60
DAY == 86400
\* Stabilities are in units of 1/SCALE day; STABILITY_MIN is 0.001 day.
SCALE == 10000
STABILITY_MIN == 10

\* The inputs of the handlers: user 1 may add two words, user 2 one.
Users == {1, 2}
AddInputs == {<<1, 1>>, <<1, 2>>, <<2, 1>>}
CardIds == 1..Cardinality(AddInputs)
\* Ratings a client may send: 1..4 are valid, 0 and 5 are not.
RatingInputs == 0..5
Limits == {1, 2}
DaysInputs == {1, 2}

None == <<>>
Some(x) == <<x>>
Val(o) == o[1]

Min(a, b) == IF a <= b THEN a ELSE b
Max(a, b) == IF a >= b THEN a ELSE b

---------------------------------------------------------------------------
\* fsrs.State: the package has no New state; a card that was never reviewed
\* has no card JSON and is shown as "New".
StateValue(name) ==
    CASE name = "Learning" -> 1
      [] name = "Review" -> 2
      [] name = "Relearning" -> 3

StateName(v) ==
    CASE v = 1 -> "Learning"
      [] v = 2 -> "Review"
      [] v = 3 -> "Relearning"

\* Card(): a fresh card is in Learning at step 0, due now, never reviewed and
\* without a stability.
NewCard(now) ==
    [state |-> "Learning", step |-> Some(0), due |-> now, last_review |-> None,
     stability |-> None]

\* Card.to_json: the state is written as its integer value.
to_json(card) ==
    <<StateValue(card.state), card.step, card.due, card.last_review, card.stability>>

\* Card.from_json
from_json(j) ==
    [state |-> StateName(j[1]), step |-> j[2], due |-> j[3], last_review |-> j[4],
     stability |-> j[5]]

\* Scheduler defaults: learning_steps = (1 min, 10 min), relearning_steps = (10 min,)
learning_steps == <<1 * MINUTE, 10 * MINUTE>>
\* Mutant: Scheduler(relearning_steps=()).
relearning_stepsNone == <<>>
relearning_steps == <<10 * MINUTE>>

\* Scheduler default parameters[0..3], the initial stability per rating:
\* 0.212, 1.2931, 2.3065, 8.2956 days, in units of 1/SCALE day.
parameters == <<2120, 12931, 23065, 82956>>

\* Scheduler._clamp_stability: max(stability, STABILITY_MIN).
_clamp_stability(s) == Max(s, STABILITY_MIN)

\* Mutant: the initial stability is left at 0.
_initial_stabilityUnset(rating) == 0

\* Scheduler._initial_stability(rating)
_initial_stability(rating) == _clamp_stability(parameters[rating])

\* The stability a review gives: the initial stability for a card without one,
\* else the (clamped) result of the stability update, which is not computed
\* here: the smallest stability and one of twice the maximum interval (the
\* stability is clamped from below only).
NextStabilities(card, rating) ==
    IF card.stability = None THEN {_initial_stability(rating)}
    ELSE {_clamp_stability(0), _clamp_stability(2 * maximum_interval * SCALE)}

\* round() of a non-negative value in units of 1/unit.
Round(x, unit) == (2 * x + unit) \div (2 * unit)

\* Scheduler._next_interval(stability) in days: with desired_retention = 0.9
\* the interval at which retrievability reaches the retention is the
\* stability; rounded, at least 1 and at most maximum_interval.
_next_interval(stability) ==
    Min(Max(Round(stability, SCALE), 1), maximum_interval)

\* The fuzz range of an interval of d days, <<min_ivl, max_ivl>>: delta is
\* 1.0 + 0.15 per day in 2.5..7 + 0.1 per day in 7..20 + 0.05 per day above 20
\* (computed in 1/1000 day).
_get_fuzz_range(d) ==
    LET t == d * 1000
        delta == 1000 + (15 * Max(Min(t, 7000) - 2500, 0)) \div 100
                      + (10 * Max(Min(t, 20000) - 7000, 0)) \div 100
                      + (5 * Max(t - 20000, 0)) \div 100
        max_ivl == Min(Round(t + delta, 1000), maximum_interval)
        min_ivl == Min(Max(2, Round(t - delta, 1000)), max_ivl)
    IN  <<min_ivl, max_ivl>>

\* Scheduler._get_fuzzed_interval (enable_fuzzing defaults to True): an
\* interval under 2.5 days is kept, else random() picks a day of the fuzz
\* range; the two ends of the range stand for the draw.
_get_fuzzed_interval(d) ==
    IF 10 * d < 25 THEN {d}
    ELSE {_get_fuzz_range(d)[1], _get_fuzz_range(d)[2]}

\* Mutant: the interval is the rounded stability, without the maximum.
ReviewIntervalsUncapped(stability) == {Round(stability, SCALE) * DAY}

\* The intervals, in seconds, of a card that enters or stays in Review with
\* the given stability.
ReviewIntervals(stability) ==
    {days * DAY : days \in _get_fuzzed_interval(_next_interval(stability))}

\* The Hard interval of a (re)learning card: the step is kept.
HardInterval(steps, step) ==
    IF step = 0 /\ Len(steps) = 1 THEN (steps[1] * 3) \div 2
    ELSE IF step = 0 /\ Len(steps) >= 2 THEN (steps[1] + steps[2]) \div 2
    ELSE steps[step + 1]

\* One (re)learning review of a card whose new stability is s:
\* <<state, step, interval>> for every interval the scheduler may choose.
\* `here` is the state the card stays in.
StepOutcomes(here, steps, step, rating, s) ==
    LET graduate == {<<"Review", None, i>> : i \in ReviewIntervals(s)}
    IN  IF Len(steps) = 0 \/ (step >= Len(steps) /\ rating \in {2, 3, 4})
        THEN graduate
        ELSE CASE rating = 1 -> {<<here, Some(0), steps[1]>>}
               [] rating = 2 -> {<<here, Some(step), HardInterval(steps, step)>>}
               [] rating = 3 -> IF step + 1 = Len(steps)
                                THEN graduate
                                ELSE {<<here, Some(step + 1), steps[step + 2]>>}
               [] rating = 4 -> graduate

\* Mutant: Again leaves a Review card in Review.
ReviewOutcomesAgainStays(rating, s) ==
    {<<"Review", None, i>> : i \in ReviewIntervals(s)}

\* One review of a card in Review whose new stability is s.
ReviewOutcomes(rating, s) ==
    IF rating = 1
    THEN IF Len(relearning_steps) = 0
         THEN {<<"Review", None, i>> : i \in ReviewIntervals(s)}
         ELSE {<<"Relearning", Some(0), relearning_steps[1]>>}
    ELSE {<<"Review", None, i>> : i \in ReviewIntervals(s)}

\* Scheduler.review_card(card, rating) at review time now, when the stability
\* update gives s: the set of cards it may return.
ReviewResults(card, rating, now, s) ==
    LET outs == CASE card.state = "Learning" ->
                       StepOutcomes("Learning", learning_steps, Val(card.step), rating, s)
                  [] card.state = "Review" -> ReviewOutcomes(rating, s)
                  [] card.state = "Relearning" ->
                       StepOutcomes("Relearning", relearning_steps, Val(card.step), rating, s)
    IN  {[state |-> o[1], step |-> o[2], due |-> now + o[3], last_review |-> Some(now),
          stability |-> Some(s)] : o \in outs}

\* Mutant: a card in Review is not reviewed again.
review_cardGraduated(card, rating, now) ==
    IF card.state = "Review" THEN {}
    ELSE UNION {ReviewResults(card, rating, now, s) : s \in NextStabilities(card, rating)}

\* Scheduler.review_card(card, rating) at review time now: the set of cards
\* it may return.
review_card(card, rating, now) ==
    UNION {ReviewResults(card, rating, now, s) : s \in NextStabilities(card, rating)}

\* int(Scheduler.get_card_retrievability(card) * 50): 0 without a last review;
\* with zero whole days elapsed the retrievability is exactly 1; after that it
\* is a value in (0, 1) that depends on the stability.
RetrievalBonus(card, now) ==
    IF card.last_review = None THEN {0}
    ELSE IF Max(0, (now - Val(card.last_review)) \div DAY) = 0 THEN {50}
    ELSE 0..49

state_bonus(name) ==
    CASE name = "New" -> 0
      [] name = "Learning" -> 10
      [] name = "Review" -> 50
      [] name = "Relearning" -> 20

\* Mutant: the retrieval bonus is scaled to 0..100 and the sum is not capped.
_calculate_masteryUncapped(card, now) ==
    {state_bonus(card.state) + 2 * b : b \in RetrievalBonus(card, now)}

\* The values _calculate_mastery(card) may return at time now.
_calculate_mastery(card, now) ==
    {Min(100, state_bonus(card.state) + b) : b \in RetrievalBonus(card, now)}

---------------------------------------------------------------------------
\* The columns of a user_wordlist row that record_review assigns.
ReviewColumns ==
    {"fsrs_card_json", "fsrs_due", "fsrs_state", "last_reviewed",
     "review_count", "mastery_level"}

\* UserWordlist(user_id=..., vocabulary_cache_id=...) with the column defaults.
NewRow(u, w) ==
    [user_id |-> u, vocabulary_cache_id |-> w,
     last_reviewed |-> None, review_count |-> 0, mastery_level |-> 0,
     fsrs_card_json |-> None, fsrs_due |-> None, fsrs_state |-> None]

Ids == DOMAIN rows
Procs == DOMAIN sess

IdleSess == [pc |-> "idle", user_id |-> 0, word_id |-> 0, rating |-> 0,
             loaded |-> NewRow(0, 0), entry |-> NewRow(0, 0)]

Resp(op, status, u, arg, body) ==
    [op |-> op, status |-> status, user_id |-> u, arg |-> arg, body |-> body]

NoResp == Resp("none", 0, 0, 0, <<>>)

\* 2025-01-30T12:00:00Z
StartTime == 29 * DAY + 12 * 60 * MINUTE

InitWith(procs) ==
    /\ rows = <<>>
    /\ clock = StartTime
    /\ ticks = 0
    /\ sess = [p \in procs |-> IdleSess]
    /\ applied = <<>>
    /\ resp = NoResp

---------------------------------------------------------------------------
RECURSIVE SumOver(_, _)
SumOver(f, S) ==
    IF S = {} THEN 0
    ELSE LET x == CHOOSE y \in S : TRUE IN f[x] + SumOver(f, S \ {x})

\* Reviews committed or in flight: the cap that keeps the model finite.
ReviewsStarted ==
    SumOver(applied, Ids) + Cardinality({p \in Procs : sess[p].pc = "commit"})

\* The vocabulary_cache table: the words that were looked up before.  A word
\* is named by the id of its cache row; a word that is not cached has none.
vocabulary_cache == {1, 2, 3, 4, 5}

MaxOf(S) == CHOOSE x \in S : \A y \in S : y <= x

\* The id of the next inserted row: INTEGER PRIMARY KEY without AUTOINCREMENT
\* is one above the largest id in the table.
NextId == IF Ids = {} THEN 1 ELSE MaxOf(Ids) + 1

\* Dropping a key of a function.
Without(f, k) == [x \in (DOMAIN f) \ {k} |-> f[x]]

\* WordlistService._get_entry(user_id, word)
_get_entry(u, w) ==
    {id \in Ids : rows[id].user_id = u /\ rows[id].vocabulary_cache_id = w}

\* WordlistService._get_or_create_vocabulary raises for a word that is not
\* cached: it calls lookup_word(word, custom_llm=...), and VocabularyService.
\* lookup_word takes no custom_llm (TypeError).
LookupRaises(w) == w \notin vocabulary_cache

\* Mutant: the table has no unique constraint.
UniqueViolationNone(u, w) == FALSE

\* UniqueConstraint("user_id", "vocabulary_cache_id"): the INSERT of a second
\* row for the pair raises IntegrityError.
UniqueViolation(u, w) ==
    \E id \in Ids : rows[id].user_id = u /\ rows[id].vocabulary_cache_id = w

\* WordlistService.add_word and POST /wordlist: 409 when the word is already
\* in the user's list, 500 when another exception is raised, else a new row.
add_word(u, w) ==
    /\ IF _get_entry(u, w) # {}
       THEN /\ resp' = Resp("add_word", 409, u, w, <<>>)
            /\ UNCHANGED <<rows, applied>>
       ELSE IF LookupRaises(w) \/ UniqueViolation(u, w)
       THEN /\ resp' = Resp("add_word", 500, u, w, <<>>)
            /\ UNCHANGED <<rows, applied>>
       ELSE LET id == NextId
            IN  /\ rows' = (id :> NewRow(u, w)) @@ rows
                /\ applied' = (id :> 0) @@ applied
                /\ resp' = Resp("add_word", 201, u, w, <<id>>)
    /\ UNCHANGED <<clock, ticks, sess>>

\* POST /wordlist up to the await of the commit, for overlapping requests: the
\* check for an existing entry and the vocabulary lookup.
AddCheck(p, u, w) ==
    /\ sess[p].pc = "idle"
    /\ IF _get_entry(u, w) # {}
       THEN /\ resp' = Resp("add_word", 409, u, w, <<>>)
            /\ UNCHANGED sess
       ELSE IF LookupRaises(w)
       THEN /\ resp' = Resp("add_word", 500, u, w, <<>>)
            /\ UNCHANGED sess
       ELSE /\ sess' = [sess EXCEPT ![p] =
                           [IdleSess EXCEPT !.pc = "insert", !.user_id = u,
                                            !.entry = NewRow(u, w)]]
            /\ resp' = NoResp
    /\ UNCHANGED <<rows, clock, ticks, applied>>

\* self.db.add(entry); await self.db.commit(): the INSERT, answered 500 when
\* the unique constraint rejects it.
AddCommit(p) ==
    /\ sess[p].pc = "insert"
    /\ LET u == sess[p].user_id
           w == sess[p].entry.vocabulary_cache_id
       IN  IF UniqueViolation(u, w)
           THEN /\ resp' = Resp("add_word", 500, u, w, <<>>)
                /\ UNCHANGED <<rows, applied>>
           ELSE LET id == NextId
                IN  /\ rows' = (id :> NewRow(u, w)) @@ rows
                    /\ applied' = (id :> 0) @@ applied
                    /\ resp' = Resp("add_word", 201, u, w, <<id>>)
    /\ sess' = [sess EXCEPT ![p] = IdleSess]
    /\ UNCHANGED <<clock, ticks>>

\* Mutant: the entry is looked up by the word alone.
remove_wordAnyOwner(u, w) ==
    /\ LET found == {i \in Ids : rows[i].vocabulary_cache_id = w}
       IN  IF found = {}
           THEN /\ resp' = Resp("remove_word", 404, u, w, <<>>)
                /\ UNCHANGED <<rows, applied>>
           ELSE LET id == CHOOSE i \in found : TRUE
                IN  /\ rows' = Without(rows, id)
                    /\ applied' = Without(applied, id)
                    /\ resp' = Resp("remove_word", 204, u, w, <<id>>)
    /\ UNCHANGED <<clock, ticks, sess>>

\* WordlistService.remove_word and DELETE /wordlist/{word}: 404 when the word
\* is not in the user's list, else the entry is deleted.
remove_word(u, w) ==
    /\ IF _get_entry(u, w) = {}
       THEN /\ resp' = Resp("remove_word", 404, u, w, <<>>)
            /\ UNCHANGED <<rows, applied>>
       ELSE LET id == CHOOSE i \in _get_entry(u, w) : TRUE
            IN  /\ rows' = Without(rows, id)
                /\ applied' = Without(applied, id)
                /\ resp' = Resp("remove_word", 204, u, w, <<id>>)
    /\ UNCHANGED <<clock, ticks, sess>>

\* WordlistUpdateRequest: mastery_level: Optional[int] = Field(None, ge=0, le=100)
WordlistUpdateRequestValid(m) == m = None \/ (Val(m) >= 0 /\ Val(m) <= 100)

\* update_entry: entry.mastery_level = max(0, min(100, mastery_level))
ClampMastery(m) == Max(0, Min(100, m))

\* Mutant: the update also stamps last_reviewed.
update_entryStamps(u, w, m) ==
    /\ IF ~WordlistUpdateRequestValid(m) \/ _get_entry(u, w) = {}
       THEN /\ resp' = Resp("update_entry", 404, u, w, <<>>)
            /\ UNCHANGED rows
       ELSE LET id == CHOOSE i \in _get_entry(u, w) : TRUE
            IN  /\ rows' = [rows EXCEPT ![id].last_reviewed = Some(clock)]
                /\ resp' = Resp("update_entry", 200, u, w, <<rows[id].mastery_level>>)
    /\ UNCHANGED <<clock, ticks, sess, applied>>

\* WordlistService.update_entry and PATCH /wordlist/{word}: 422 for a mastery
\* level outside 0..100, 404 when the word is not in the user's list, else the
\* mastery level, when one is given, is stored.
update_entry(u, w, m) ==
    /\ IF ~WordlistUpdateRequestValid(m)
       THEN /\ resp' = Resp("update_entry", 422, u, w, <<>>)
            /\ UNCHANGED rows
       ELSE IF _get_entry(u, w) = {}
       THEN /\ resp' = Resp("update_entry", 404, u, w, <<>>)
            /\ UNCHANGED rows
       ELSE LET id == CHOOSE i \in _get_entry(u, w) : TRUE
                level == IF m = None THEN rows[id].mastery_level
                         ELSE ClampMastery(Val(m))
            IN  /\ rows' = [rows EXCEPT ![id].mastery_level = level]
                /\ resp' = Resp("update_entry", 200, u, w, <<level>>)
    /\ UNCHANGED <<clock, ticks, sess, applied>>

RECURSIVE Descending(_)
\* The ids of S, largest first.
Descending(S) ==
    IF S = {} THEN <<>> ELSE <<MaxOf(S)>> \o Descending(S \ {MaxOf(S)})

\* Mutant: the mastery is recomputed from the card when it is shown.
ShownMasteryLive(id, now) ==
    IF rows[id].fsrs_card_json = None THEN {rows[id].mastery_level}
    ELSE _calculate_mastery(from_json(Val(rows[id].fsrs_card_json)), now)

\* get_user_wordlist: "mastery_level": entry.mastery_level, the stored column.
ShownMastery(id, now) == {rows[id].mastery_level}

\* The lists get_user_wordlist(user_id) may return at time now: the user's
\* entries, latest added first (a later entry has a larger id).
UserWordlists(u, now) ==
    LET ids == Descending({id \in Ids : rows[id].user_id = u})
        Lists(n) == [1..n -> UNION {ShownMastery(id, now) : id \in Ids}]
    IN  {[i \in 1..Len(ids) |-> [id |-> ids[i],
                                 review_count |-> rows[ids[i]].review_count,
                                 mastery_level |-> ml[i]]]
            : ml \in {l \in Lists(Len(ids)) :
                         \A i \in 1..Len(ids) : l[i] \in ShownMastery(ids[i], now)}}

\* GET /wordlist
get_user_wordlist(u) ==
    /\ \E words \in UserWordlists(u, clock) :
          resp' = Resp("get_user_wordlist", 200, u, 0, words)
    /\ UNCHANGED <<rows, clock, ticks, sess, applied>>

\* Mutant: the request model does not bound the rating.
ReviewRequestValidAny(rating) == TRUE

\* ReviewRequest: rating: int = Field(..., ge=1, le=4)
ReviewRequestValid(rating) == rating >= 1 /\ rating <= 4

\* fsrs.Rating(rating) raises ValueError for a value that is no Rating.
IsRating(rating) == rating \in {1, 2, 3, 4}

\* Mutant: the SELECT does not filter on the user.
SelectEntryAnyOwner(u, id) ==
    {i \in Ids : i = id}

\* record_review, the SELECT: the entry with this id that belongs to the user.
SelectEntry(u, id) ==
    {i \in Ids : i = id /\ rows[i].user_id = u}

\* Mutant: the ValueError is not caught.
ReviewErrorStatusUncaught(exc) == 500

\* POST /srs/review: a ValueError of the service is answered 404.
ReviewErrorStatus(exc) == IF exc = "ValueError" THEN 404 ELSE 500

\* record_review lines 103-121: the entries the handler may hold after it
\* reviewed the loaded row at time now; `stamp` is the later clock read of
\* line 117, datetime.now(timezone.utc), that last_reviewed is set to.
ReviewedEntries(row, rating, now, stamp) ==
    LET card == IF row.fsrs_card_json # None
                THEN from_json(Val(row.fsrs_card_json))
                ELSE NewCard(now)
    IN  {[row EXCEPT !.fsrs_card_json = Some(to_json(cm[1])),
                     !.fsrs_due = Some(cm[1].due),
                     !.fsrs_state = Some(cm[1].state),
                     !.last_reviewed = Some(stamp),
                     !.review_count = row.review_count + 1,
                     !.mastery_level = cm[2]]
            : cm \in UNION {{<<c2, m2>> : m2 \in _calculate_mastery(c2, now)}
                               : c2 \in review_card(card, rating, now)}}

\* POST /srs/review up to the await of the commit: request validation (422),
\* the SELECT (ValueError, answered 404), Rating(rating) (ValueError), then
\* the review of the loaded entry.  The second clock read comes `gap` seconds
\* after the one of review_card, for a gap of `gaps`.
BeginReviewAt(p, u, id, rating, cap, gaps) ==
    /\ sess[p].pc = "idle"
    /\ IF ~ReviewRequestValid(rating)
       THEN /\ resp' = Resp("record_review", 422, u, id, <<>>)
            /\ UNCHANGED sess
       ELSE IF SelectEntry(u, id) = {} \/ ~IsRating(rating)
       THEN /\ resp' = Resp("record_review", ReviewErrorStatus("ValueError"), u, id, <<>>)
            /\ UNCHANGED sess
       ELSE /\ ReviewsStarted < cap
            /\ \E gap \in gaps :
               \E e \in ReviewedEntries(rows[id], rating, clock, clock + gap) :
                  sess' = [sess EXCEPT ![p] =
                              [pc |-> "commit", user_id |-> u, word_id |-> id,
                               rating |-> rating, loaded |-> rows[id], entry |-> e]]
            /\ resp' = NoResp
    /\ UNCHANGED <<rows, clock, ticks, applied>>

\* The same with both clock reads in one second.
BeginReview(p, u, id, rating, cap) == BeginReviewAt(p, u, id, rating, cap, {0})

\* Mutant: the UPDATE leaves fsrs_due out.
FlushedRowSkipsDue(stored, loaded, entry) ==
    [col \in DOMAIN stored |->
        IF col \in (ReviewColumns \ {"fsrs_due"}) /\ entry[col] # loaded[col]
        THEN entry[col] ELSE stored[col]]

\* The UPDATE the session flushes at commit: the columns whose value differs
\* from the loaded one are written, the others are left as they are stored.
FlushedRow(stored, loaded, entry) ==
    [col \in DOMAIN stored |->
        IF col \in ReviewColumns /\ entry[col] # loaded[col]
        THEN entry[col] ELSE stored[col]]

\* The ReviewLog rows in the database: review_card's log is bound to a local
\* and never added to the session, and no table holds review logs.
PersistedReviewLogs(id) == {}

\* await self.db.commit(): when the row is gone the UPDATE matches no row and
\* the commit raises (StaleDataError), which the handler does not catch.
CommitReview(p) ==
    /\ sess[p].pc = "commit"
    /\ LET id == sess[p].word_id
       IN  IF id \in Ids
           THEN /\ rows' = [rows EXCEPT ![id] =
                               FlushedRow(rows[id], sess[p].loaded, sess[p].entry)]
                /\ applied' = [applied EXCEPT ![id] = @ + 1]
                /\ sess' = [sess EXCEPT ![p].pc = "refresh"]
                /\ resp' = NoResp
           ELSE /\ resp' = Resp("record_review", ReviewErrorStatus("StaleDataError"),
                                sess[p].user_id, id, <<>>)
                /\ sess' = [sess EXCEPT ![p] = IdleSess]
                /\ UNCHANGED <<rows, applied>>
    /\ UNCHANGED <<clock, ticks>>

\* Mutant: a failed commit is answered service unavailable.
CommitFailsUnavailable(p) ==
    /\ sess[p].pc = "commit"
    /\ resp' = Resp("record_review", 503, sess[p].user_id, sess[p].word_id, <<>>)
    /\ sess' = [sess EXCEPT ![p] = IdleSess]
    /\ UNCHANGED <<rows, clock, ticks, applied>>

\* await self.db.commit() fails (the storage is not reachable): the exception
\* leaves record_review and the handler, which catches ValueError only; nothing
\* is stored.
CommitFails(p) ==
    /\ sess[p].pc = "commit"
    /\ resp' = Resp("record_review", ReviewErrorStatus("OperationalError"),
                    sess[p].user_id, sess[p].word_id, <<>>)
    /\ sess' = [sess EXCEPT ![p] = IdleSess]
    /\ UNCHANGED <<rows, clock, ticks, applied>>

\* await self.db.refresh(entry) and the returned dict; the refresh of a row
\* that is gone raises.
RefreshReview(p) ==
    /\ sess[p].pc = "refresh"
    /\ LET id == sess[p].word_id
       IN  IF id \in Ids
           THEN resp' = Resp("record_review", 200, sess[p].user_id, id,
                             <<rows[id].fsrs_state, rows[id].fsrs_due,
                               rows[id].mastery_level, rows[id].review_count>>)
           ELSE resp' = Resp("record_review", ReviewErrorStatus("InvalidRequestError"),
                             sess[p].user_id, id, <<>>)
    /\ sess' = [sess EXCEPT ![p] = IdleSess]
    /\ UNCHANGED <<rows, clock, ticks, applied>>

---------------------------------------------------------------------------
\* Mutant: fsrs_due < now.
DueRowsStrict(u, now) ==
    {id \in Ids :
        /\ rows[id].user_id = u
        /\ \/ (rows[id].fsrs_due # None /\ Val(rows[id].fsrs_due) < now)
           \/ rows[id].fsrs_card_json = None}

\* Mutant: the WHERE clause has the user only.
DueRowsAnyDue(u, now) == {id \in Ids : rows[id].user_id = u}

\* get_due_words: the WHERE clause.  A NULL fsrs_due compares as not true.
DueRows(u, now) ==
    {id \in Ids :
        /\ rows[id].user_id = u
        /\ \/ (rows[id].fsrs_due # None /\ Val(rows[id].fsrs_due) <= now)
           \/ rows[id].fsrs_card_json = None}

\* Mutant: ORDER BY ..., fsrs_due DESC.
OrderedBeforeDueDesc(a, b) ==
    LET newA == rows[a].fsrs_card_json = None
        newB == rows[b].fsrs_card_json = None
    IN  \/ newA /\ ~newB
        \/ /\ newA = newB
           /\ rows[a].fsrs_due # None /\ rows[b].fsrs_due # None
           /\ Val(rows[a].fsrs_due) > Val(rows[b].fsrs_due)

\* get_due_words: ORDER BY fsrs_card_json IS NULL DESC, fsrs_due ASC.  TRUE when
\* the ORDER BY puts row a strictly before row b; rows it does not tell apart
\* come in whatever order the database produces them.
OrderedBefore(a, b) ==
    LET newA == rows[a].fsrs_card_json = None
        newB == rows[b].fsrs_card_json = None
    IN  \/ newA /\ ~newB
        \/ /\ newA = newB
           /\ rows[a].fsrs_due # None /\ rows[b].fsrs_due # None
           /\ Val(rows[a].fsrs_due) < Val(rows[b].fsrs_due)

RECURSIVE Orderings(_)
\* Every order of the rows of S that the ORDER BY allows: a row comes first
\* when the ORDER BY puts no other row of S strictly before it.
Orderings(S) ==
    IF S = {} THEN {<<>>}
    ELSE UNION {{<<x>> \o s : s \in Orderings(S \ {x})}
                   : x \in {y \in S : \A z \in S : ~OrderedBefore(z, y)}}

\* One word of the get_due_words answer.
DueWord(id) ==
    [id |-> id,
     state |-> IF rows[id].fsrs_state # None THEN Val(rows[id].fsrs_state) ELSE "New",
     due |-> rows[id].fsrs_due]

\* The lists get_due_words(user_id, limit) may return at time now.
DueWordLists(u, now, limit) ==
    {[i \in 1..Min(limit, Len(s)) |-> DueWord(s[i])] : s \in Orderings(DueRows(u, now))}

\* GET /srs/due
get_due_words(u, limit) ==
    /\ \E words \in DueWordLists(u, clock, limit) :
          resp' = Resp("get_due_words", 200, u, limit, words)
    /\ UNCHANGED <<rows, clock, ticks, sess, applied>>

---------------------------------------------------------------------------
\* The calendar of the datetime module.
IsLeap(y) == y % 4 = 0 /\ (y % 100 # 0 \/ y % 400 = 0)

DaysInMonth(y, m) ==
    IF m = 2 THEN (IF IsLeap(y) THEN 29 ELSE 28)
    ELSE IF m \in {4, 6, 9, 11} THEN 30 ELSE 31

RECURSIVE DateFrom(_, _, _)
\* The date n days after the first of month m of year y, as <<y, m, d>>.
DateFrom(y, m, n) ==
    IF n < DaysInMonth(y, m) THEN <<y, m, n + 1>>
    ELSE IF m = 12 THEN DateFrom(y + 1, 1, n - DaysInMonth(y, m))
    ELSE DateFrom(y, m + 1, n - DaysInMonth(y, m))

\* datetime.date() of a time.
DateOf(t) == DateFrom(2025, 1, t \div DAY)

\* now.replace(hour=0, minute=0, second=0, microsecond=0)
Midnight(t) == (t \div DAY) * DAY

\* day_start.replace(day=d) raises ValueError when month m of year y has no day d.
ReplaceDayRaises(y, m, d) == d < 1 \/ d > DaysInMonth(y, m)

\* day_start <= e.fsrs_due < day_end raises TypeError: day_start comes from
\* datetime.now(timezone.utc) and carries a time zone, the fsrs_due read from a
\* DateTime column carries none.
CompareRaises(entries) == entries # {}

\* get_review_forecast(user_id, days) at time now: raised when a replace() or
\* the comparison with an entry's fsrs_due raises, else the list of
\* <<date, count>>.
ForecastOf(u, days, now) ==
    LET today == DateOf(now)
        y == today[1]
        m == today[2]
        d == today[3]
        entries == {id \in Ids : rows[id].user_id = u /\ rows[id].fsrs_due # None}
        day_start(i) == Midnight(now) + i * DAY
        count(i) == Cardinality({id \in entries :
                        /\ day_start(i) <= Val(rows[id].fsrs_due)
                        /\ Val(rows[id].fsrs_due) < day_start(i) + DAY})
    IN  IF \E i \in 0..(days - 1) :
              \/ ReplaceDayRaises(y, m, d + i)
              \/ ReplaceDayRaises(y, m, d + i + 1)
              \/ CompareRaises(entries)
        THEN [raised |-> TRUE, forecast |-> <<>>]
        ELSE [raised |-> FALSE,
              forecast |-> [i \in 1..days |-> <<(<<y, m, d + (i - 1)>>), count(i - 1)>>]]

\* Mutant: the forecast list is kept between calls and each call appends to
\* it.
get_review_forecastShared(u, days) ==
    /\ LET f == ForecastOf(u, days, clock)
           kept == IF resp.op = "get_review_forecast" THEN resp.body ELSE <<>>
       IN  IF f.raised
           THEN resp' = Resp("get_review_forecast", 500, u, days, <<>>)
           ELSE resp' = Resp("get_review_forecast", 200, u, days, kept \o f.forecast)
    /\ UNCHANGED <<rows, clock, ticks, sess, applied>>

\* GET /srs/forecast: an exception of the service is answered 500.
get_review_forecast(u, days) ==
    /\ LET f == ForecastOf(u, days, clock)
       IN  IF f.raised
           THEN resp' = Resp("get_review_forecast", 500, u, days, <<>>)
           ELSE resp' = Resp("get_review_forecast", 200, u, days, f.forecast)
    /\ UNCHANGED <<rows, clock, ticks, sess, applied>>

\* round(avg_mastery / 100, 2) in hundredths, for avg_mastery = sum / total:
\* the nearest whole number of hundredths; at a tie the float division
\* decides, which is not computed here.
RoundedAverages(sum, total) ==
    LET q == sum \div total
        r == sum % total
    IN  IF 2 * r < total THEN {q}
        ELSE IF 2 * r > total THEN {q + 1}
        ELSE {q, q + 1}

\* get_srs_stats(user_id) at time now: raised when e.fsrs_due <= now compares
\* the naive column value with the time zone aware now (TypeError), else the
\* statistics it may return.
StatsOf(u, now) ==
    LET entries == {id \in Ids : rows[id].user_id = u}
        total == Cardinality(entries)
        new_count == Cardinality({id \in entries : rows[id].fsrs_card_json = None})
        due_count == Cardinality({id \in entries :
                         rows[id].fsrs_due # None /\ Val(rows[id].fsrs_due) <= now})
        InState(name) == Cardinality({id \in entries : rows[id].fsrs_state = Some(name)})
        masteries == [id \in Ids |-> rows[id].mastery_level]
        Stats(d, avg) ==
            [totalCards |-> total, dueToday |-> d, newCards |-> new_count,
             learningCards |-> InState("Learning"), reviewCards |-> InState("Review"),
             relearningCards |-> InState("Relearning"), averageRetention |-> avg]
    IN  IF total = 0
        THEN [raised |-> FALSE, stats |-> {Stats(0, 0)}]
        ELSE IF CompareRaises({id \in entries : rows[id].fsrs_due # None})
        THEN [raised |-> TRUE, stats |-> {}]
        ELSE [raised |-> FALSE,
              stats |-> {Stats(due_count + new_count, avg)
                            : avg \in RoundedAverages(SumOver(masteries, entries), total)}]

\* GET /srs/stats: an exception of the service is answered 500.
get_srs_stats(u) ==
    /\ LET st == StatsOf(u, clock)
       IN  IF st.raised
           THEN resp' = Resp("get_srs_stats", 500, u, 0, <<>>)
           ELSE \E body \in st.stats : resp' = Resp("get_srs_stats", 200, u, 0, body)
    /\ UNCHANGED <<rows, clock, ticks, sess, applied>>

---------------------------------------------------------------------------
\* Time passes, a day at a time.
TickDeltas == {DAY}

Tick(d, cap) ==
    /\ ticks < cap
    /\ clock' = clock + d
    /\ ticks' = ticks + 1
    /\ resp' = NoResp
    /\ UNCHANGED <<rows, sess, applied>>

\* One request at a time at a fixed clock: the handlers that write, with every
\* input.
Init == InitWith({1})

Next ==
    \/ \E a \in AddInputs : add_word(a[1], a[2])
    \/ \E u \in Users, id \in CardIds, r \in RatingInputs :
          BeginReview(1, u, id, r, MaxReviews)
    \/ CommitReview(1)
    \/ CommitFails(1)
    \/ RefreshReview(1)

Spec == Init /\ [][Next]_vars

\* No request is under way.
NoRequest == \A p \in Procs : sess[p].pc = "idle"

\* One request at a time: the queries, over the stores that add_word and the
\* owners' reviews build.
NextQuery ==
    \/ \E a \in AddInputs : add_word(a[1], a[2])
    \/ \E id \in Ids, r \in {1, 4} :
          BeginReview(1, rows[id].user_id, id, r, QueryReviews)
    \/ CommitReview(1)
    \/ RefreshReview(1)
    \/ \E u \in Users, limit \in Limits : NoRequest /\ get_due_words(u, limit)
    \/ \E u \in Users, days \in DaysInputs :
          NoRequest /\ get_review_forecast(u, days)
    \/ \E d \in TickDeltas : NoRequest /\ Tick(d, QueryTicks)

SpecQuery == Init /\ [][NextQuery]_vars

\* One request at a time: one user who adds the words of DueWords one after
\* the other, reviews them with Easy and asks for the due words with
\* a limit below the number of cards.
DueWords == {1, 2, 3, 4, 5}
DueLimits == {4}
DueTickDeltas == {10 * DAY}
NextDue ==
    \/ \E w \in DueWords : w = Cardinality(Ids) + 1 /\ add_word(1, w)
    \/ \E id \in Ids : BeginReview(1, 1, id, 4, DueReviews)
    \/ CommitReview(1)
    \/ RefreshReview(1)
    \/ \E limit \in DueLimits : get_due_words(1, limit)
    \/ \E d \in DueTickDeltas : Tick(d, DueTicks)

SpecDue == Init /\ [][NextDue]_vars

\* One request at a time: the wordlist handlers and the reviews.  A request
\* starts when no other is under way.
ListAddInputs == AddInputs \cup {<<1, 6>>}
MasteryInputs == {None, Some(-1), Some(40), Some(101)}
NextList ==
    \/ \E a \in ListAddInputs : NoRequest /\ NextId <= ListIds /\ add_word(a[1], a[2])
    \/ \E a \in ListAddInputs : NoRequest /\ remove_word(a[1], a[2])
    \/ \E a \in ListAddInputs, m \in MasteryInputs :
          NoRequest /\ update_entry(a[1], a[2], m)
    \/ \E u \in Users : NoRequest /\ get_user_wordlist(u)
    \/ \E id \in Ids, r \in {1, 3, 4} :
          BeginReview(1, rows[id].user_id, id, r, ListReviews)
    \/ CommitReview(1)
    \/ RefreshReview(1)

SpecList == Init /\ [][NextList]_vars

\* One request at a time: the reviews and the wordlist as it is shown, while
\* time passes.
NextShow ==
    \/ \E a \in AddInputs : add_word(a[1], a[2])
    \/ \E id \in Ids, r \in {1, 2, 3, 4} :
          BeginReview(1, rows[id].user_id, id, r, ShowReviews)
    \/ CommitReview(1)
    \/ RefreshReview(1)
    \/ \E u \in Users : get_user_wordlist(u)
    \/ \E d \in TickDeltas : Tick(d, ShowTicks)

SpecShow == Init /\ [][NextShow]_vars

\* Overlapping record_review requests of one user on one card.
ConcProcs == {1, 2}

InitConc == InitWith(ConcProcs)

NextConc ==
    \/ add_word(1, 1)
    \/ \E p \in ConcProcs, r \in RatingInputs : BeginReview(p, 1, 1, r, ConcReviews)
    \/ \E p \in ConcProcs : CommitReview(p)
    \/ \E p \in ConcProcs : RefreshReview(p)
    \/ \E d \in TickDeltas : Tick(d, ConcTicks)

SpecConc == InitConc /\ [][NextConc]_vars

\* Overlapping add_word requests, and remove_word.
InsertsStarted == Cardinality({p \in Procs : sess[p].pc = "insert"})

NextAdd ==
    \/ \E p \in ConcProcs, a \in AddInputs :
          NextId + InsertsStarted <= AddIds /\ AddCheck(p, a[1], a[2])
    \/ \E p \in ConcProcs : AddCommit(p)
    \/ \E a \in AddInputs : remove_word(a[1], a[2])

SpecAdd == InitConc /\ [][NextAdd]_vars

\* One request at a time: every handler, for two users.
OwnerMasteryInputs == {Some(40)}
OwnerLimits == {3}
OwnerDays == {1}
NextOwner ==
    \/ \E a \in AddInputs : NoRequest /\ NextId <= OwnerIds /\ add_word(a[1], a[2])
    \/ \E a \in AddInputs : NoRequest /\ remove_word(a[1], a[2])
    \/ \E a \in AddInputs, m \in OwnerMasteryInputs :
          NoRequest /\ update_entry(a[1], a[2], m)
    \/ \E id \in Ids, r \in {1, 4} :
          BeginReview(1, rows[id].user_id, id, r, OwnerReviews)
    \/ CommitReview(1)
    \/ RefreshReview(1)
    \/ \E u \in Users, limit \in OwnerLimits : NoRequest /\ get_due_words(u, limit)
    \/ \E u \in Users : NoRequest /\ get_srs_stats(u)
    \/ \E u \in Users, days \in OwnerDays : NoRequest /\ get_review_forecast(u, days)
    \/ \E d \in TickDeltas : NoRequest /\ Tick(d, OwnerTicks)

SpecOwner == Init /\ [][NextOwner]_vars

\* A record_review request that overlaps with other requests of the two
\* users: add_word, remove_word and the queries.
NextRace ==
    \/ \E a \in AddInputs : NextId <= RaceIds /\ add_word(a[1], a[2])
    \/ \E a \in AddInputs : remove_word(a[1], a[2])
    \/ \E u \in Users, id \in 1..RaceIds, r \in {1, 4} :
          BeginReview(1, u, id, r, RaceReviews)
    \/ CommitReview(1)
    \/ RefreshReview(1)
    \/ \E u \in Users, limit \in OwnerLimits : get_due_words(u, limit)
    \/ \E u \in Users : get_srs_stats(u)

SpecRace == Init /\ [][NextRace]_vars

\* Overlapping record_review requests on one card, the second clock read of
\* each up to a second after the first, while minutes pass.
ReadGaps == {0, 1}
StampTickDeltas == {270}
NextStamp ==
    \/ add_word(1, 1)
    \/ \E p \in ConcProcs, r \in {1, 2, 3, 4} :
          BeginReviewAt(p, 1, 1, r, StampReviews, ReadGaps)
    \/ \E p \in ConcProcs : CommitReview(p)
    \/ \E p \in ConcProcs : RefreshReview(p)
    \/ \E d \in StampTickDeltas : Tick(d, StampTicks)

SpecStamp == InitConc /\ [][NextStamp]_vars

---------------------------------------------------------------------------
\* The claims.

\* The state of the card a review read: New when the row has no card yet.
PriorState(row) ==
    IF row.fsrs_card_json = None THEN "New"
    ELSE from_json(Val(row.fsrs_card_json)).state

\* <<prior state, rating, next state>> of every review that was computed and
\* has not returned yet.
ReviewTriples ==
    {<<PriorState(sess[p].loaded), sess[p].rating, Val(sess[p].entry.fsrs_state)>>
        : p \in {q \in Procs : sess[q].pc \in {"commit", "refresh"}}}

\* C1: concurrent record_review calls on one card are applied one after the
\* other, so the stored review count is the number of reviews that committed
\* (initial count plus 2 after two reviews).
C1_ReviewsSerialized ==
    \A id \in Ids : rows[id].review_count = applied[id]

ClaimedTransitions ==
    ({"New"} \X {1, 2, 3, 4} \X {"Learning"})
    \cup ({"Learning"} \X {1, 2} \X {"Learning"})
    \cup ({"Learning"} \X {3, 4} \X {"Review"})
    \cup ({"Review"} \X {1} \X {"Relearning"})
    \cup ({"Review"} \X {2, 3, 4} \X {"Review"})
    \cup ({"Relearning"} \X {1, 2} \X {"Relearning"})
    \cup ({"Relearning"} \X {3, 4} \X {"Review"})

C4_InvalidRatingRejected ==
    [][\A u \in Users, id \in CardIds, r \in RatingInputs :
          (r \notin {1, 2, 3, 4} /\ BeginReview(1, u, id, r, MaxReviews))
              => (resp'.status = 422 /\ rows' = rows)]_vars

\* An invalid rating was rejected for the owner's own, already reviewed card.
C4_Witness ==
    /\ resp.op = "record_review" /\ resp.status = 422
    /\ resp.arg \in Ids
    /\ rows[resp.arg].user_id = resp.user_id
    /\ applied[resp.arg] > 0

\* The date i days after today, by the calendar.
CalendarDate(i) == DateFrom(2025, 1, (clock \div DAY) + i)

\* C5: get_review_forecast(owner, days) returns days entries, the dates
\* starting today and each the calendar day after the one before.
C5_ForecastDates ==
    resp.op = "get_review_forecast" =>
        /\ resp.status = 200
        /\ Len(resp.body) = resp.arg
        /\ \A i \in 1..Len(resp.body) : resp.body[i][1] = CalendarDate(i - 1)

\* The owner's cards that were never reviewed or are due at the clock.
EligibleCards(u) ==
    {id \in Ids :
        /\ rows[id].user_id = u
        /\ \/ applied[id] = 0
           \/ (rows[id].fsrs_due # None /\ Val(rows[id].fsrs_due) <= clock)}

ReturnedIds == {resp.body[i].id : i \in 1..Len(resp.body)}

\* C6: with a limit of at least the number of eligible cards, get_due_words
\* returns exactly the owner's never reviewed cards and cards with due <= now.
C6_DueSetExact ==
    (resp.op = "get_due_words" /\ resp.arg >= Cardinality(EligibleCards(resp.user_id)))
        => ReturnedIds = EligibleCards(resp.user_id)

\* The answer holds a reviewed card that is due and leaves out a reviewed card
\* of the same owner that is not due yet.
C6_Witness ==
    /\ resp.op = "get_due_words"
    /\ resp.arg >= Cardinality(EligibleCards(resp.user_id))
    /\ \E id \in ReturnedIds : applied[id] > 0
    /\ \E id \in Ids \ ReturnedIds :
          rows[id].user_id = resp.user_id /\ applied[id] > 0

\* Card a may come before card b: a never reviewed card before any card, a
\* reviewed card before a reviewed card with the same or a later due.
MayPrecede(a, b) ==
    \/ applied[a] = 0
    \/ /\ applied[b] > 0
       /\ Val(rows[a].fsrs_due) <= Val(rows[b].fsrs_due)

\* C7: get_due_words returns the first `limit` eligible cards, never reviewed
\* cards before reviewed ones and reviewed ones by ascending due.
C7_DueOrder ==
    resp.op = "get_due_words" =>
        LET E == EligibleCards(resp.user_id)
            b == resp.body
        IN  /\ Len(b) = Min(resp.arg, Cardinality(E))
            /\ ReturnedIds \subseteq E
            /\ Cardinality(ReturnedIds) = Len(b)
            /\ \A i, j \in 1..Len(b) : i < j => MayPrecede(b[i].id, b[j].id)
            /\ \A i \in 1..Len(b) : \A x \in E \ ReturnedIds : MayPrecede(b[i].id, x)

\* Scenario C: the owner has 3 never reviewed cards and 2 overdue Review cards
\* with different dues; the answer to limit 4 is the 3 never reviewed cards and
\* then the Review card with the earlier due.
C7_Witness ==
    LET new == {id \in Ids : applied[id] = 0}
        rev == {id \in Ids : applied[id] > 0}
    IN  /\ resp.op = "get_due_words" /\ resp.arg = 4
        /\ Cardinality(new) = 3 /\ Cardinality(rev) = 2
        /\ \A id \in rev : /\ rows[id].fsrs_state = Some("Review")
                            /\ Val(rows[id].fsrs_due) <= clock
        /\ \E a, b \in rev : Val(rows[a].fsrs_due) < Val(rows[b].fsrs_due)
        /\ Len(resp.body) = 4
        /\ {resp.body[i].id : i \in 1..3} = new
        /\ resp.body[4].id \in rev
        /\ \A b \in rev : Val(rows[resp.body[4].id].fsrs_due) <= Val(rows[b].fsrs_due)

\* Cards a and b tie on never-reviewed-ness and due.
SameKey(a, b) ==
    \/ applied[a] = 0 /\ applied[b] = 0
    \/ /\ applied[a] > 0 /\ applied[b] > 0
       /\ rows[a].fsrs_due = rows[b].fsrs_due

\* C8: get_due_words orders cards that tie on (never reviewed, due) by
\* ascending id, so the answer is fixed by the owner, the clock and the limit.
C8_TiesById ==
    resp.op = "get_due_words" =>
        /\ \A i, j \in 1..Len(resp.body) :
              (i < j /\ SameKey(resp.body[i].id, resp.body[j].id))
                  => resp.body[i].id < resp.body[j].id
        /\ \A i \in 1..Len(resp.body) :
              \A x \in EligibleCards(resp.user_id) \ ReturnedIds :
                  SameKey(resp.body[i].id, x) => resp.body[i].id < x

\* C9 as claimed: record_review on another owner's card is answered Forbidden
\* (403) and no row changes.
C9_ForeignCardForbidden ==
    [][\A u \in Users, id \in CardIds, r \in {1, 2, 3, 4} :
          (id \in Ids /\ rows[id].user_id # u /\ BeginReview(1, u, id, r, MaxReviews))
              => (resp'.status = 403 /\ rows' = rows)]_vars

\* C9, amended: record_review on another owner's card is answered not found
\* (404), as for an id that does not exist, and no row changes.
C9_ForeignCardNotFound ==
    [][\A u \in Users, id \in CardIds, r \in {1, 2, 3, 4} :
          (id \in Ids /\ rows[id].user_id # u /\ BeginReview(1, u, id, r, MaxReviews))
              => (resp'.status = 404 /\ rows' = rows)]_vars

\* A review of a card of the other user was answered 404.
C9_Witness ==
    /\ resp.op = "record_review" /\ resp.status = 404
    /\ resp.arg \in Ids
    /\ rows[resp.arg].user_id # resp.user_id

\* C10: record_review on an id that does not exist is answered not found (404)
\* and no row changes.
C10_MissingCardNotFound ==
    [][\A u \in Users, id \in CardIds, r \in {1, 2, 3, 4} :
          (id \notin Ids /\ BeginReview(1, u, id, r, MaxReviews))
              => (resp'.status = 404 /\ rows' = rows)]_vars

\* A review of an id that does not exist was answered 404 while the user has
\* cards.
C10_Witness ==
    /\ resp.op = "record_review" /\ resp.status = 404
    /\ resp.arg \notin Ids
    /\ \E id \in Ids : rows[id].user_id = resp.user_id

\* C11: every record_review that commits raises the card's review count by
\* exactly 1, and the count it returns is the number of reviews committed to
\* the card.
C11_CountPerReview ==
    [][\A p \in Procs :
          /\ (CommitReview(p) /\ sess[p].word_id \in Ids) =>
                rows'[sess[p].word_id].review_count
                    = rows[sess[p].word_id].review_count + 1
          /\ (RefreshReview(p) /\ sess[p].word_id \in Ids) =>
                resp'.body[4] = applied[sess[p].word_id]]_vars

\* C12 as claimed: no operation removes a card while its user and its
\* vocabulary item exist (neither is ever deleted here).
C12_OnlyCascadeDeletes ==
    [][\A id \in Ids : id \in Ids']_vars

\* C12, amended: a card is removed only by remove_word of its owner for its
\* word, one card at a time.
C12_RemovedByOwnerOnly ==
    [][\A id \in Ids : id \notin Ids' =>
          /\ resp'.op = "remove_word" /\ resp'.status = 204
          /\ resp'.user_id = rows[id].user_id
          /\ resp'.arg = rows[id].vocabulary_cache_id
          /\ Ids' = Ids \ {id}]_vars

\* The owner removed one card and still has another one.
C12_Witness ==
    /\ resp.op = "remove_word" /\ resp.status = 204
    /\ resp.body[1] \notin Ids
    /\ \E id \in Ids : rows[id].user_id = resp.user_id

\* C13: the review step is deterministic: from the card a review read, the
\* rating, the review time and the stability the update gives, review_card
\* has one result.
C13_ReviewDeterministic ==
    \A p \in Procs : sess[p].pc = "commit" =>
        LET row == sess[p].loaded
            now == Val(sess[p].entry.last_reviewed)
            card == IF row.fsrs_card_json # None
                    THEN from_json(Val(row.fsrs_card_json)) ELSE NewCard(now)
        IN  \A s \in NextStabilities(card, sess[p].rating) :
                Cardinality(ReviewResults(card, sess[p].rating, now, s)) = 1

\* C14: the first review of a never reviewed card, whatever the rating, gives
\* a card in Learning or Review with a stability above 0 and a due after the
\* review time.
C14_FirstReview ==
    \A p \in Procs :
        (sess[p].pc \in {"commit", "refresh"} /\ sess[p].loaded.fsrs_card_json = None) =>
            LET card == from_json(Val(sess[p].entry.fsrs_card_json))
            IN  /\ card.state \in {"Learning", "Review"}
                /\ sess[p].entry.fsrs_state = Some(card.state)
                /\ card.stability # None /\ Val(card.stability) > 0
                /\ card.due > Val(sess[p].entry.last_reviewed)
                /\ sess[p].entry.fsrs_due = Some(card.due)

\* The first review of a card with Easy was committed: the card is in Review.
C14_Witness ==
    \E p \in Procs :
        /\ sess[p].pc = "refresh"
        /\ sess[p].loaded.fsrs_card_json = None
        /\ sess[p].rating = 4
        /\ sess[p].entry.fsrs_state = Some("Review")

C16_ForecastCounts ==
    LET today == DateOf(clock)
    IN  (/\ resp.op = "get_review_forecast"
         /\ \A i \in 0..resp.arg :
               ~ReplaceDayRaises(today[1], today[2], today[3] + i))
            => /\ resp.status = 200
               /\ Len(resp.body) = resp.arg
               /\ \A i \in 1..Len(resp.body) :
                     resp.body[i][2] =
                         Cardinality({id \in Ids :
                             /\ rows[id].user_id = resp.user_id
                             /\ rows[id].fsrs_due # None
                             /\ DateOf(Val(rows[id].fsrs_due)) = CalendarDate(i - 1)})

\* C17 as claimed: a commit that fails is tried again, or (the retry having
\* failed) answered service unavailable (503).
C17_RetriedOnce ==
    [][\A p \in Procs :
          CommitFails(p) => (sess'[p].pc = "commit" \/ resp'.status = 503)]_vars

\* C17, amended: a commit that fails is not tried again: the request ends with
\* an internal error (500) and nothing of the review is stored.
C17_FailureSurfaces ==
    [][\A p \in Procs :
          CommitFails(p) =>
              /\ resp'.status = 500
              /\ sess'[p].pc = "idle"
              /\ rows' = rows /\ applied' = applied]_vars

\* A review of a never reviewed card failed at the commit: the card is still
\* never reviewed.
C17_Witness ==
    /\ resp.op = "record_review" /\ resp.status = 500
    /\ resp.arg \in Ids
    /\ applied[resp.arg] = 0
    /\ rows[resp.arg].fsrs_card_json = None /\ rows[resp.arg].review_count = 0

C19_MasteryInRange ==
    \A id \in Ids : rows[id].mastery_level \in 0..100

\* A reviewed card whose mastery level update_entry then set.
C19_Witness ==
    /\ resp.op = "update_entry" /\ resp.status = 200
    /\ \E id \in Ids :
          /\ rows[id].user_id = resp.user_id
          /\ rows[id].vocabulary_cache_id = resp.arg
          /\ applied[id] > 0
          /\ rows[id].mastery_level = 40

\* C20: no two cards have the same owner and vocabulary item, and an add_word
\* for a word that is in the owner's list, overlapping or not, adds nothing.
C20_OneCardPerPair ==
    [][/\ \A a, b \in Ids' :
             (/\ rows'[a].user_id = rows'[b].user_id
              /\ rows'[a].vocabulary_cache_id = rows'[b].vocabulary_cache_id) => a = b
       /\ \A p \in Procs, a \in AddInputs :
             (/\ \E id \in Ids : /\ rows[id].user_id = a[1]
                                 /\ rows[id].vocabulary_cache_id = a[2]
              /\ \/ AddCheck(p, a[1], a[2])
                 \/ (AddCommit(p) /\ sess[p].user_id = a[1]
                                  /\ sess[p].entry.vocabulary_cache_id = a[2]))
                 => (rows' = rows /\ resp'.status \in {409, 500})]_vars

\* An insert was rejected: the other request had added the word meanwhile.
C20_Witness ==
    /\ resp.op = "add_word" /\ resp.status = 500
    /\ \E id \in Ids : /\ rows[id].user_id = resp.user_id
                       /\ rows[id].vocabulary_cache_id = resp.arg

\* What the queries of user u return in the current state.
QueriesOf(u) ==
    <<[limit \in OwnerLimits |-> DueWordLists(u, clock, limit)],
      StatsOf(u, clock),
      [days \in OwnerDays |-> ForecastOf(u, days, clock)]>>

\* A request of user u takes a step.
StepOf(u) ==
    \/ \E a \in AddInputs : a[1] = u /\ (add_word(u, a[2]) \/ remove_word(u, a[2]))
    \/ \E a \in AddInputs, m \in OwnerMasteryInputs : a[1] = u /\ update_entry(u, a[2], m)
    \/ \E p \in Procs :
          sess[p].user_id = u /\ (CommitReview(p) \/ RefreshReview(p))

\* C21: what get_due_words, get_srs_stats and get_review_forecast return for
\* a user is unchanged by every step of a request of another user, and a
\* record_review of a user changes no card of another user.
C21_OwnerScoped ==
    [][\A u \in Users :
          StepOf(u) =>
              /\ \A other \in Users \ {u} : QueriesOf(other)' = QueriesOf(other)
              /\ \A id \in Ids \cap DOMAIN rows' :
                    rows'[id] # rows[id] => rows[id].user_id = u]_vars

\* The cards that reviews computed and have not answered for yet.
ReviewedCards ==
    {from_json(Val(sess[p].entry.fsrs_card_json))
        : p \in {q \in Procs : sess[q].pc \in {"commit", "refresh"}}}

\* C22: after a review, whatever the prior card and the rating, the due is at
\* most maximum_interval (365) days after the review time, in the card and in
\* the due column that the handler sets.
C22_IntervalCapped ==
    \A p \in Procs :
        sess[p].pc \in {"commit", "refresh"} =>
            LET card == from_json(Val(sess[p].entry.fsrs_card_json))
            IN  /\ card.due - Val(card.last_review) <= maximum_interval * DAY
                /\ Val(sess[p].entry.fsrs_due) - Val(card.last_review)
                       <= maximum_interval * DAY

\* A review of a card in Review gave a stability above the maximum interval
\* and a due exactly maximum_interval days later.
C22_Witness ==
    \E card \in ReviewedCards :
        /\ card.state = "Review"
        /\ Val(card.stability) > maximum_interval * SCALE
        /\ card.due - Val(card.last_review) = maximum_interval * DAY

\* The card record_review reviews for a row at time now.
CardOf(row, now) ==
    IF row.fsrs_card_json # None THEN from_json(Val(row.fsrs_card_json)) ELSE NewCard(now)

\* C23: for every stored card and the current time, the interval (due minus
\* review time) that Again gives is never longer than the interval that Easy
\* gives.
C23_AgainNotLonger ==
    \A id \in Ids :
        \A again \in review_card(CardOf(rows[id], clock), 1, clock),
           easy \in review_card(CardOf(rows[id], clock), 4, clock) :
            again.due - clock <= easy.due - clock

\* A card is stored in Review, where Again gives the relearning step of ten
\* minutes and Easy may give an interval of one day.
C23_Witness ==
    /\ \E id \in Ids :
          /\ rows[id].fsrs_card_json # None
          /\ CardOf(rows[id], clock).state = "Review"
          /\ \E again \in review_card(CardOf(rows[id], clock), 1, clock) :
                again.due - clock = 10 * MINUTE
          /\ \E easy \in review_card(CardOf(rows[id], clock), 4, clock) :
                easy.due - clock = DAY

\* The scheduling fields of a row.
SchedulingFields(row) ==
    <<row.fsrs_card_json, row.fsrs_due, row.fsrs_state, row.review_count,
      row.last_reviewed>>

\* C24: the scheduling fields of an existing card change only in the commit
\* of a record_review of that card, which is then answered 200; add_word,
\* update_entry, get_due_words, get_srs_stats and get_review_forecast leave
\* them as they are.
C24_OnlyReviewWrites ==
    [][/\ \A id \in Ids \cap DOMAIN rows' :
             SchedulingFields(rows'[id]) # SchedulingFields(rows[id]) =>
                 \E p \in Procs : sess[p].word_id = id /\ CommitReview(p)
       /\ \A p \in Procs : RefreshReview(p) => resp'.status = 200]_vars

\* update_entry stored a mastery level for a card that was reviewed before.
C24_Witness ==
    /\ resp.op = "update_entry" /\ resp.status = 200
    /\ \E id \in _get_entry(resp.user_id, resp.arg) :
          applied[id] > 0 /\ rows[id].mastery_level = 40

WellFormedCard(card) ==
    /\ card.state \in {"Learning", "Review", "Relearning"}
    /\ (card.state = "Review") = (card.step = None)
    /\ card.last_review # None => card.stability # None

\* C26: no card state is terminal: for every stored card and every rating
\* 1..4, record_review of the owner passes the validation and the SELECT,
\* and review_card gives at least one successor, each again a card that can
\* be reviewed.
C26_NoTerminalState ==
    \A id \in Ids, rating \in {1, 2, 3, 4} :
        LET card == CardOf(rows[id], clock)
        IN  /\ ReviewRequestValid(rating) /\ IsRating(rating)
            /\ SelectEntry(rows[id].user_id, id) = {id}
            /\ WellFormedCard(card)
            /\ review_card(card, rating, clock) # {}
            /\ \A next \in review_card(card, rating, clock) : WellFormedCard(next)
            /\ ReviewedEntries(rows[id], rating, clock, clock) # {}

\* A card was reviewed twice and is stored in Relearning.
C26_Witness ==
    \E id \in Ids :
        /\ applied[id] >= 2
        /\ rows[id].fsrs_state = Some("Relearning")
        /\ CardOf(rows[id], clock).state = "Relearning"

\* C27: the due that a successful record_review returns is the stored due of
\* the card, and get_due_words leaves a reviewed card out while now is before
\* that due and has it among the eligible cards from the due on (returned
\* when the limit does not cut the list).
C27_DueGate ==
    /\ (resp.op = "record_review" /\ resp.status = 200) =>
           /\ resp.body[2] = rows[resp.arg].fsrs_due
           /\ Val(resp.body[2]) > clock
    /\ resp.op = "get_due_words" =>
           \A id \in Ids :
               (rows[id].user_id = resp.user_id /\ applied[id] > 0) =>
                   /\ clock < Val(rows[id].fsrs_due) => id \notin ReturnedIds
                   /\ (clock >= Val(rows[id].fsrs_due) /\ Len(resp.body) < resp.arg) =>
                          id \in ReturnedIds

\* After time passed, the answer holds a card whose due lay after its review
\* and leaves out a reviewed card of the owner whose due is still ahead.
C27_Witness ==
    /\ resp.op = "get_due_words"
    /\ \E id \in ReturnedIds :
          /\ applied[id] > 0
          /\ Val(rows[id].last_reviewed) < Val(rows[id].fsrs_due)
          /\ Val(rows[id].fsrs_due) <= clock
    /\ \E id \in Ids \ ReturnedIds :
          /\ rows[id].user_id = resp.user_id /\ applied[id] > 0
          /\ Val(rows[id].last_reviewed) < clock
          /\ clock < Val(rows[id].fsrs_due)

\* C28: the card JSON, fsrs_due and fsrs_state of a row are all null or all
\* set, and when set the two columns are the due and the state of the card in
\* the JSON.
C28_ColumnsMatchCard ==
    \A id \in Ids :
        LET r == rows[id]
        IN  IF r.fsrs_card_json = None
            THEN r.fsrs_due = None /\ r.fsrs_state = None
            ELSE /\ r.fsrs_due = Some(from_json(Val(r.fsrs_card_json)).due)
                 /\ r.fsrs_state = Some(from_json(Val(r.fsrs_card_json)).state)

\* C29: get_srs_stats answers with a dueToday that is the number of words
\* get_due_words returns for the same user at the same time with a limit
\* above the number of cards.
C29_DueTodayIsDueCount ==
    resp.op = "get_srs_stats" =>
        /\ resp.status = 200
        /\ \A words \in DueWordLists(resp.user_id, clock, Cardinality(Ids) + 1) :
              resp.body.dueToday = Len(words)

\* C30: a record_review that overlaps with remove_word of its card is answered
\* as in a serial order: 200 with the review stored in the requester's card,
\* or the not found error (404) with no such card of the requester left; and
\* a card whose removal was answered 204 is gone.
C30_RaceIsSerial ==
    /\ (resp.op = "record_review" /\ resp.status # 422) =>
           \/ /\ resp.status = 200
              /\ resp.arg \in Ids
              /\ rows[resp.arg].user_id = resp.user_id
              /\ rows[resp.arg].review_count > 0
           \/ /\ resp.status = 404
              /\ SelectEntry(resp.user_id, resp.arg) = {}
    /\ (resp.op = "remove_word" /\ resp.status = 204) => resp.body[1] \notin Ids

====
